---- MODULE Spec2Model ----
(***************************************************************************)
(* Model of the mod manager HTTP service (server.js).  The state is the    *)
(* host filesystem the two confined roots live in, the last request and    *)
(* the response the service gave to it, the requests whose handler has not *)
(* finished, and the container runtime.  Strings are sequences of          *)
(* one-character strings, so that startsWith / endsWith / replace work on   *)
(* characters as the JavaScript does.                                       *)
(***************************************************************************)
EXTENDS Integers, Sequences, FiniteSets, TLC

VARIABLES fs, resp, inflight, docker

vars == <<fs, resp, inflight, docker>>

(* ------------------------------ strings ------------------------------- *)

SLASH == "/"

DOT == "."

\* String.prototype.startsWith
StartsWith(s, pre) ==
  /\ Len(s) >= Len(pre)
  /\ SubSeq(s, 1, Len(pre)) = pre

\* String.prototype.endsWith
EndsWith(s, suf) ==
  /\ Len(s) >= Len(suf)
  /\ SubSeq(s, Len(s) - Len(suf) + 1, Len(s)) = suf

\* String.prototype.indexOf, 1-based; 0 when pat does not occur in s
IndexOf(s, pat) ==
  LET hits == {i \in 1..(Len(s) - Len(pat) + 1) : SubSeq(s, i, i + Len(pat) - 1) = pat}
  IN IF hits = {} THEN 0 ELSE CHOOSE i \in hits : \A j \in hits : i <= j

\* String.prototype.replace(pat, rep) with a string pattern: the FIRST occurrence
ReplaceFirst(s, pat, rep) ==
  LET i == IndexOf(s, pat)
  IN IF i = 0 THEN s
     ELSE SubSeq(s, 1, i - 1) \o rep \o SubSeq(s, i + Len(pat), Len(s))

\* String.prototype.toLowerCase on the letters the model's names use
LowerChar(c) ==
  CASE c = "J" -> "j"
    [] c = "A" -> "a"
    [] c = "R" -> "r"
    [] OTHER -> c

ToLowerCase(s) == [i \in 1..Len(s) |-> LowerChar(s[i])]

(* ------------------------------- paths -------------------------------- *)

\* the segments of a path string, split at "/" (empty segments kept)
RECURSIVE SplitFrom(_, _, _)
SplitFrom(s, i, cur) ==
  IF i > Len(s) THEN <<cur>>
  ELSE IF s[i] = SLASH THEN <<cur>> \o SplitFrom(s, i + 1, <<>>)
  ELSE SplitFrom(s, i + 1, Append(cur, s[i]))

Split(s) == SplitFrom(s, 1, <<>>)

\* path.normalize on the segments of an absolute path: "" and "." are
\* dropped, ".." removes the segment before it (and nothing at the root)
RECURSIVE NormalizeSegs(_, _)
NormalizeSegs(segs, acc) ==
  IF segs = <<>> THEN acc
  ELSE LET h == Head(segs)
           t == Tail(segs)
       IN IF h = <<>> \/ h = <<DOT>> THEN NormalizeSegs(t, acc)
          ELSE IF h = <<DOT, DOT>>
               THEN NormalizeSegs(t, IF acc = <<>> THEN acc ELSE SubSeq(acc, 1, Len(acc) - 1))
          ELSE NormalizeSegs(t, Append(acc, h))

\* the string of an absolute path given by its segments
RECURSIVE PathStr(_)
PathStr(segs) ==
  IF segs = <<>> THEN <<SLASH>>
  ELSE IF Len(segs) = 1 THEN <<SLASH>> \o segs[1]
  ELSE PathStr(SubSeq(segs, 1, Len(segs) - 1)) \o <<SLASH>> \o segs[Len(segs)]

IsAbsolute(s) == Len(s) > 0 /\ s[1] = SLASH

\* A resolved (absolute, normalized) path is kept as its segments; PathStr
\* gives its string.  Segs resolves an absolute path string.
Segs(p) == NormalizeSegs(Split(p), <<>>)

\* path.resolve(base, rel), base absolute: an absolute rel replaces base
Resolve(base, rel) ==
  IF IsAbsolute(rel) THEN Segs(rel)
  ELSE NormalizeSegs(Split(rel), Segs(base))

\* path.join(base, rel) followed by path.resolve: rel is always appended
JoinResolve(base, rel) == NormalizeSegs(Split(rel), Segs(base))

\* path.join(dir, name) for a resolved dir
Child(dir, name) == NormalizeSegs(Split(name), dir)

\* path.basename of a resolved path
Basename(s) == IF s = <<>> THEN <<>> ELSE s[Len(s)]

\* path.dirname of a resolved path
Dirname(s) == IF s = <<>> THEN s ELSE SubSeq(s, 1, Len(s) - 1)

\* path.extname: from the last "." of the name, "" when there is none or
\* when the only one is the first character
Extname(name) ==
  LET dots == {i \in 1..Len(name) : name[i] = DOT}
  IN IF dots = {} THEN <<>>
     ELSE LET last == CHOOSE i \in dots : \A j \in dots : j <= i
          IN IF last = 1 THEN <<>> ELSE SubSeq(name, last, Len(name))

(* --------------------------- configuration ---------------------------- *)

APP == <<"a", "p", "p">>

\* DATA_DIR, the general-files root: "/app/data"
DATA_DIR == <<SLASH>> \o APP \o <<SLASH, "d", "a", "t", "a">>

\* MODS_DIR, the mods root: "/app/mods"
MODS_DIR == <<SLASH>> \o APP \o <<SLASH, "m", "o", "d", "s">>

\* path.resolve(DATA_DIR)
DataRoot == Segs(DATA_DIR)

\* path.resolve(MODS_DIR)
ModsRoot == Segs(MODS_DIR)

\* null, and the name toggle has for no mod file: no resolved path and no
\* file name is this value
NULL == <<<<>>>>

\* safePath(base, rel): startsWith on the resolved strings
safePath(base, rel) ==
  LET full == Resolve(base, rel)
  IN IF ~StartsWith(PathStr(full), PathStr(Resolve(base, <<>>))) THEN NULL ELSE full

(* ----------------------------- file data ------------------------------ *)

\* A JavaScript string: its leading UTF-16 code units, followed by `fill`
\* more units "a" (a run-length form, so that sizes near the read cap fit)
JsString(units, fill) == [units |-> units, fill |-> fill]

\* The bytes of a file: its leading bytes, followed by `fill` more bytes 0x61
FileData(bytes, fill) == [bytes |-> bytes, fill |-> fill]

EmptyData == FileData(<<>>, 0)

\* stats.size of a file
Size(d) == Len(d.bytes) + d.fill

IsHighSurrogate(u) == u >= 55296 /\ u <= 56319

IsLowSurrogate(u) == u >= 56320 /\ u <= 57343

\* U+FFFD, what an unencodable unit and an undecodable byte turn into
REPLACEMENT == 65533

\* the UTF-8 bytes of one code point
EncodePoint(cp) ==
  IF cp < 128 THEN <<cp>>
  ELSE IF cp < 2048 THEN <<192 + (cp \div 64), 128 + (cp % 64)>>
  ELSE IF cp < 65536
       THEN <<224 + (cp \div 4096), 128 + ((cp \div 64) % 64), 128 + (cp % 64)>>
  ELSE <<240 + (cp \div 262144), 128 + ((cp \div 4096) % 64),
         128 + ((cp \div 64) % 64), 128 + (cp % 64)>>

\* Buffer.from(string, "utf-8"): a surrogate pair is one code point, an
\* unpaired surrogate is written as U+FFFD
RECURSIVE Utf8Encode(_)
Utf8Encode(u) ==
  IF u = <<>> THEN <<>>
  ELSE IF IsHighSurrogate(u[1]) /\ Len(u) >= 2 /\ IsLowSurrogate(u[2])
       THEN EncodePoint(65536 + (u[1] - 55296) * 1024 + (u[2] - 56320))
            \o Utf8Encode(SubSeq(u, 3, Len(u)))
  ELSE IF IsHighSurrogate(u[1]) \/ IsLowSurrogate(u[1])
       THEN EncodePoint(REPLACEMENT) \o Utf8Encode(Tail(u))
  ELSE EncodePoint(u[1]) \o Utf8Encode(Tail(u))

IsCont(b) == b >= 128 /\ b <= 191

\* how many continuation bytes the lead byte b announces (0: not a lead)
Need(b) ==
  IF b >= 194 /\ b <= 223 THEN 1
  ELSE IF b >= 224 /\ b <= 239 THEN 2
  ELSE IF b >= 240 /\ b <= 244 THEN 3
  ELSE 0

\* the range the first continuation byte of lead b must lie in
FirstContOk(b, c) ==
  /\ IsCont(c)
  /\ (b = 224 => c >= 160)
  /\ (b = 237 => c <= 159)
  /\ (b = 240 => c >= 144)
  /\ (b = 244 => c <= 143)

\* the count of bytes after position i that continue the sequence lead s[i] starts
ContRun(s, i) ==
  LET n == Need(s[i])
      ok(k) == /\ i + k <= Len(s)
               /\ IF k = 1 THEN FirstContOk(s[i], s[i + 1]) ELSE IsCont(s[i + k])
  IN IF n >= 1 /\ ok(1)
     THEN IF n >= 2 /\ ok(2)
          THEN IF n >= 3 /\ ok(3) THEN 3 ELSE 2
          ELSE 1
     ELSE 0

\* the code units of the code point cp
UnitsOf(cp) ==
  IF cp < 65536 THEN <<cp>>
  ELSE <<55296 + ((cp - 65536) \div 1024), 56320 + ((cp - 65536) % 1024)>>

\* buffer.toString("utf-8"): never fails, an ill-formed sequence decodes to U+FFFD
RECURSIVE Utf8DecodeFrom(_, _)
Utf8DecodeFrom(s, i) ==
  IF i > Len(s) THEN <<>>
  ELSE IF s[i] < 128 THEN <<s[i]>> \o Utf8DecodeFrom(s, i + 1)
  ELSE LET n == Need(s[i])
           k == ContRun(s, i)
       IN IF n = 0 THEN <<REPLACEMENT>> \o Utf8DecodeFrom(s, i + 1)
          ELSE IF k < n THEN <<REPLACEMENT>> \o Utf8DecodeFrom(s, i + 1 + k)
          ELSE IF n = 1
               THEN UnitsOf((s[i] - 192) * 64 + (s[i + 1] - 128)) \o Utf8DecodeFrom(s, i + 2)
          ELSE IF n = 2
               THEN UnitsOf((s[i] - 224) * 4096 + (s[i + 1] - 128) * 64 + (s[i + 2] - 128))
                    \o Utf8DecodeFrom(s, i + 3)
          ELSE UnitsOf((s[i] - 240) * 262144 + (s[i + 1] - 128) * 4096
                       + (s[i + 2] - 128) * 64 + (s[i + 3] - 128))
               \o Utf8DecodeFrom(s, i + 4)

\* EncodeString with the wrong encoding: one byte per code unit ("latin1")
EncodeString_Latin1(str) ==
  FileData([i \in 1..Len(str.units) |-> str.units[i] % 256], str.fill)

\* the bytes fs.writeFileSync(path, string, "utf-8") writes
EncodeString(str) == FileData(Utf8Encode(str.units), str.fill)

\* the string fs.readFileSync(path, "utf-8") returns
DecodeData(d) == JsString(Utf8DecodeFrom(d.bytes, 1), d.fill)

(* ----------------------------- filesystem ----------------------------- *)

\* fs maps the segments of every existing absolute path to its entry
DirEntry == [kind |-> "dir", data |-> EmptyData]

FileEntry(d) == [kind |-> "file", data |-> d]

IsPrefix(a, b) == Len(a) <= Len(b) /\ SubSeq(b, 1, Len(a)) = a

Parent(s) == SubSeq(s, 1, Len(s) - 1)

\* fs.existsSync
existsSync(f, s) == s \in DOMAIN f

\* fs.statSync(p).isDirectory() of an existing path
isDirectory(f, s) == f[s].kind = "dir"

\* the result of a filesystem call: ok is FALSE when the call throws
Done(f) == [ok |-> TRUE, fs |-> f]

Throws(f) == [ok |-> FALSE, fs |-> f]

\* fs.mkdirSync(p, {recursive: true}): every missing ancestor is created;
\* throws when p or an ancestor is a file
mkdirSync(f, s) ==
  LET pre == {SubSeq(s, 1, k) : k \in 0..Len(s)}
  IN IF \E q \in pre : q \in DOMAIN f /\ f[q].kind = "file" THEN Throws(f)
     ELSE Done([q \in DOMAIN f \cup pre |-> IF q \in DOMAIN f THEN f[q] ELSE DirEntry])

\* fs.writeFileSync(p, data) and a completed write stream: throws when the
\* parent is no directory or p is a directory, else creates or overwrites
writeFileSync(f, s, d) ==
  IF s = <<>> THEN Throws(f)
     ELSE IF Parent(s) \notin DOMAIN f \/ f[Parent(s)].kind # "dir" THEN Throws(f)
     ELSE IF s \in DOMAIN f /\ f[s].kind = "dir" THEN Throws(f)
     ELSE Done([q \in DOMAIN f \cup {s} |-> IF q = s THEN FileEntry(d) ELSE f[q]])

\* fs.unlinkSync: removes a file, throws on a directory or a missing path
unlinkSync(f, s) ==
  IF s \notin DOMAIN f \/ f[s].kind # "file" THEN Throws(f)
     ELSE Done([q \in DOMAIN f \ {s} |-> f[q]])

\* rmSync without `recursive`: only the entry itself goes
rmSync_Shallow(f, s) ==
  Done([q \in DOMAIN f \ {s} |-> f[q]])

\* fs.rmSync(p, {recursive: true, force: true}): p and everything below it
rmSync(f, s) ==
  Done([q \in {r \in DOMAIN f : ~IsPrefix(s, r)} |-> f[q]])

\* fs.renameSync(old, new), rename(2): a file replaces a file, a directory
\* replaces an empty directory, the whole subtree moves
renameSync(f, so, sn) ==
  LET below(s) == {r \in DOMAIN f : IsPrefix(s, r) /\ r # s}
      moved == {r \in DOMAIN f : IsPrefix(so, r)}
      target(r) == sn \o SubSeq(r, Len(so) + 1, Len(r))
      kept == {r \in DOMAIN f : ~IsPrefix(so, r) /\ r # sn}
  IN IF so \notin DOMAIN f \/ so = <<>> \/ sn = <<>> THEN Throws(f)
     ELSE IF so = sn THEN Done(f)
     ELSE IF Parent(sn) \notin DOMAIN f \/ f[Parent(sn)].kind # "dir" THEN Throws(f)
     ELSE IF IsPrefix(so, sn) THEN Throws(f)
     ELSE IF sn \in DOMAIN f /\ (f[sn].kind # f[so].kind \/ below(sn) # {}) THEN Throws(f)
     ELSE Done([q \in kept \cup {target(r) : r \in moved} |->
                  IF q \in kept THEN f[q]
                  ELSE f[so \o SubSeq(q, Len(sn) + 1, Len(q))]])

\* fs.readdirSync(dir): the names of the immediate children
readdirSync(f, s) ==
  {r[Len(r)] : r \in {q \in DOMAIN f : Len(q) = Len(s) + 1 /\ IsPrefix(s, q)}}

(* ------------------------ requests and responses ---------------------- *)

EmptyString == JsString(<<>>, 0)

\* a request body's `content`: a string, or absent
Content(str) == [present |-> TRUE, str |-> str]

NoContent == [present |-> FALSE, str |-> EmptyString]

\* an incoming file of a multipart upload: its declared name and its bytes
Upload(name, d) == [name |-> name, data |-> d]

\* The last request and its response.  json is TRUE when the handler itself
\* answered with res.json / res.status(..).json, FALSE when the answer is the
\* framework's (an error passed to next() or thrown out of the handler, which
\* no error middleware of the service catches: the default answer is 500).
Response(op, path, path2, content, files, status, json, body) ==
  [op |-> op, path |-> path, path2 |-> path2, content |-> content, files |-> files,
   status |-> status, json |-> json, body |-> body]

Answer(op, path, status) ==
  Response(op, path, <<>>, NoContent, <<>>, status, TRUE, <<>>)

Uncaught(op, path) ==
  Response(op, path, <<>>, NoContent, <<>>, 500, FALSE, <<>>)

(* --------------------------- listing order ---------------------------- *)

\* Two characters no TLA+ string can hold, written by their code points:
\* U+00E9, "e" with acute accent as one character, and U+0301, the
\* combining acute accent.  U+00E9 is canonically equivalent to "e" U+0301.
EACUTE == "U+00E9"

ACUTE == "U+0301"

\* the letters and signs of the model's names in the locale's primary order
Alphabet ==
  <<".", "2", "a", "b", "c", "d", "e", "f", "i", "j", "l", "m", "n", "o", "p",
    "r", "s", "t", "u", "x">>

\* the canonical decomposition of a string (Unicode NFD), which the
\* collation works on
RECURSIVE Decompose(_)
Decompose(s) ==
  IF s = <<>> THEN <<>>
  ELSE (IF Head(s) = EACUTE THEN <<"e", ACUTE>> ELSE <<Head(s)>>) \o Decompose(Tail(s))

\* the base characters of a decomposed string: all but the combining marks
RECURSIVE Bases(_)
Bases(s) ==
  IF s = <<>> THEN <<>>
  ELSE (IF Head(s) = ACUTE THEN <<>> ELSE <<Head(s)>>) \o Bases(Tail(s))

\* per base character of a decomposed string, 1 when an accent follows it
RECURSIVE Accents(_)
Accents(s) ==
  IF s = <<>> THEN <<>>
  ELSE IF Head(s) = ACUTE THEN Accents(Tail(s))
  ELSE <<IF Len(s) >= 2 /\ s[2] = ACUTE THEN 1 ELSE 0>> \o Accents(Tail(s))

PrimaryRank(c) == CHOOSE i \in 1..Len(Alphabet) : Alphabet[i] = LowerChar(c)

\* -1, 0, 1 as the key sequences ka and kb compare lexicographically
RECURSIVE CompareKeys(_, _, _)
CompareKeys(ka, kb, i) ==
  IF i > Len(ka) /\ i > Len(kb) THEN 0
  ELSE IF i > Len(ka) THEN -1
  ELSE IF i > Len(kb) THEN 1
  ELSE IF ka[i] < kb[i] THEN -1
  ELSE IF ka[i] > kb[i] THEN 1
  ELSE CompareKeys(ka, kb, i + 1)

CaseRank(c) == IF LowerChar(c) = c THEN 0 ELSE 1

\* a.localeCompare(b): the base letters compare first, without accent and
\* case; then the accents; then the case, lower before upper.  Strings that
\* are canonically equivalent compare as equal (0).
localeCompare(a, b) ==
  LET na == Decompose(a)
      nb == Decompose(b)
      ba == Bases(na)
      bb == Bases(nb)
      prim == CompareKeys([i \in 1..Len(ba) |-> PrimaryRank(ba[i])],
                          [i \in 1..Len(bb) |-> PrimaryRank(bb[i])], 1)
      sec == CompareKeys(Accents(na), Accents(nb), 1)
  IN IF prim # 0 THEN prim
     ELSE IF sec # 0 THEN sec
     ELSE CompareKeys([i \in 1..Len(ba) |-> CaseRank(ba[i])],
                      [i \in 1..Len(bb) |-> CaseRank(bb[i])], 1)

\* the comparator of items.sort in GET /api/files is negative for (x, y)
ItemBefore(x, y) ==
  IF x.isDirectory = y.isDirectory THEN localeCompare(x.name, y.name) < 0
  ELSE x.isDirectory

\* x put into the sorted sequence, behind every item it is not before
RECURSIVE InsertItem(_, _)
InsertItem(sorted, x) ==
  IF sorted = <<>> THEN <<x>>
  ELSE IF ItemBefore(x, Head(sorted)) THEN <<x>> \o sorted
  ELSE <<Head(sorted)>> \o InsertItem(Tail(sorted), x)

\* items.sort(comparator): Array.prototype.sort is stable, items the
\* comparator gives 0 for stay in the order they came in
RECURSIVE SortItems(_)
SortItems(items) ==
  IF items = <<>> THEN <<>>
  ELSE InsertItem(SortItems(SubSeq(items, 1, Len(items) - 1)), items[Len(items)])

\* the orders fs.readdirSync may enumerate the names S in: the filesystem
\* promises none
Orders(S) ==
  {o \in [1..Cardinality(S) -> S] : \A i, j \in 1..Cardinality(S) : i # j => o[i] # o[j]}

\* one such order, fixed by the directory's content
RECURSIVE Enumerate(_)
Enumerate(S) ==
  IF S = {} THEN <<>>
  ELSE LET x == CHOOSE y \in S : TRUE IN <<x>> \o Enumerate(S \ {x})

(* ------------------------- File Tree Manager -------------------------- *)

\* 1024 * 512 of GET /api/files/read
READ_CAP == 1024 * 512

\* the item GET /api/files reports for the child `name` of dir (directory
\* sizes are the filesystem's own and are reported as 0 here)
Item(f, dir, name) ==
  LET e == f[Child(dir, name)]
  IN [name |-> name, isDirectory |-> e.kind = "dir",
      size |-> IF e.kind = "dir" THEN 0 ELSE Size(e.data)]

\* the names fs.readdirSync gives GET /api/files?path=rel ({} when the
\* handler does not get that far)
Entries(f, rel) ==
  LET dir == safePath(DATA_DIR, rel)
  IN IF dir # NULL /\ existsSync(f, dir) /\ isDirectory(f, dir) THEN readdirSync(f, dir)
     ELSE {}

\* GET /api/files?path=, readdirSync enumerating the entries in `order`
listDirectory(f, rel, order) ==
  LET dir == safePath(DATA_DIR, rel)
  IN IF dir = NULL THEN [fs |-> f, resp |-> Answer("list", rel, 400)]
     ELSE IF ~existsSync(f, dir) THEN [fs |-> f, resp |-> Answer("list", rel, 404)]
     ELSE IF ~isDirectory(f, dir) THEN [fs |-> f, resp |-> Answer("list", rel, 500)]
     ELSE [fs |-> f,
           resp |-> Response("list", rel, <<>>, NoContent, <<>>, 200, TRUE,
                             SortItems([i \in 1..Len(order) |-> Item(f, dir, order[i])]))]

\* GET /api/files/read?path=
readFile(f, rel) ==
  LET filePath == safePath(DATA_DIR, rel)
  IN IF filePath = NULL THEN [fs |-> f, resp |-> Answer("read", rel, 400)]
     ELSE IF ~existsSync(f, filePath) \/ isDirectory(f, filePath)
          THEN [fs |-> f, resp |-> Answer("read", rel, 400)]
     ELSE IF Size(f[filePath].data) > READ_CAP
          THEN [fs |-> f, resp |-> Answer("read", rel, 400)]
     ELSE [fs |-> f,
           resp |-> Response("read", rel, <<>>, NoContent, <<>>, 200, TRUE,
                             <<DecodeData(f[filePath].data)>>)]

\* the parent directory is created when missing, then the file is written
WriteThrough(f, filePath, d) ==
  LET dir == Dirname(filePath)
      made == IF ~existsSync(f, dir) THEN mkdirSync(f, dir) ELSE Done(f)
  IN IF ~made.ok THEN made ELSE writeFileSync(made.fs, filePath, d)

\* req.body.content || ""
ContentOrEmpty(c) == IF c.present THEN c.str ELSE EmptyString

\* express.json(): a JSON body of more than 100 KiB is refused with 413
\* before any handler runs (the content alone is measured here)
BODY_LIMIT == 100 * 1024

\* PUT /api/files/write {path, content}
writeFile(f, rel, c) ==
  LET filePath == safePath(DATA_DIR, rel)
      out == WriteThrough(f, filePath, EncodeString(ContentOrEmpty(c)))
      r(status) == Response("write", rel, <<>>, c, <<>>, status, TRUE, <<>>)
  IN IF Size(EncodeString(c.str)) > BODY_LIMIT
     THEN [fs |-> f, resp |-> Response("write", rel, <<>>, c, <<>>, 413, FALSE, <<>>)]
     ELSE IF filePath = NULL THEN [fs |-> f, resp |-> r(400)]
     ELSE IF ~out.ok THEN [fs |-> out.fs, resp |-> r(500)]
     ELSE [fs |-> out.fs, resp |-> r(200)]

\* createFile without the existsSync check: an existing file is overwritten
createFile_NoExistsCheck(f, rel) ==
  LET filePath == safePath(DATA_DIR, rel)
      out == WriteThrough(f, filePath, EncodeString(EmptyString))
  IN IF filePath = NULL THEN [fs |-> f, resp |-> Answer("create", rel, 400)]
     ELSE IF ~out.ok THEN [fs |-> out.fs, resp |-> Answer("create", rel, 500)]
     ELSE [fs |-> out.fs, resp |-> Answer("create", rel, 200)]

\* POST /api/files/create {path}
createFile(f, rel) ==
  LET filePath == safePath(DATA_DIR, rel)
      out == WriteThrough(f, filePath, EncodeString(EmptyString))
  IN IF filePath = NULL THEN [fs |-> f, resp |-> Answer("create", rel, 400)]
     ELSE IF existsSync(f, filePath) THEN [fs |-> f, resp |-> Answer("create", rel, 409)]
     ELSE IF ~out.ok THEN [fs |-> out.fs, resp |-> Answer("create", rel, 500)]
     ELSE [fs |-> out.fs, resp |-> Answer("create", rel, 200)]

\* createDirectory without the existsSync check: mkdirSync of an existing
\* directory succeeds
createDirectory_NoExistsCheck(f, rel) ==
  LET dirPath == safePath(DATA_DIR, rel)
      out == mkdirSync(f, dirPath)
  IN IF dirPath = NULL THEN [fs |-> f, resp |-> Answer("mkdir", rel, 400)]
     ELSE IF ~out.ok THEN [fs |-> out.fs, resp |-> Answer("mkdir", rel, 500)]
     ELSE [fs |-> out.fs, resp |-> Answer("mkdir", rel, 200)]

\* POST /api/files/mkdir {path}
createDirectory(f, rel) ==
  LET dirPath == safePath(DATA_DIR, rel)
      out == mkdirSync(f, dirPath)
  IN IF dirPath = NULL THEN [fs |-> f, resp |-> Answer("mkdir", rel, 400)]
     ELSE IF existsSync(f, dirPath) THEN [fs |-> f, resp |-> Answer("mkdir", rel, 409)]
     ELSE IF ~out.ok THEN [fs |-> out.fs, resp |-> Answer("mkdir", rel, 500)]
     ELSE [fs |-> out.fs, resp |-> Answer("mkdir", rel, 200)]

\* rename without the existsSync(newPath) check: renameSync replaces the target
rename_Overwrite(f, relOld, relNew) ==
  LET oldPath == safePath(DATA_DIR, relOld)
      newPath == safePath(DATA_DIR, relNew)
      out == renameSync(f, oldPath, newPath)
      r(status) == Response("rename", relOld, relNew, NoContent, <<>>, status, TRUE, <<>>)
  IN IF oldPath = NULL \/ newPath = NULL THEN [fs |-> f, resp |-> r(400)]
     ELSE IF ~existsSync(f, oldPath) THEN [fs |-> f, resp |-> r(404)]
     ELSE IF ~out.ok THEN [fs |-> out.fs, resp |-> r(500)]
     ELSE [fs |-> out.fs, resp |-> r(200)]

\* POST /api/files/rename {oldPath, newPath}
rename(f, relOld, relNew) ==
  LET oldPath == safePath(DATA_DIR, relOld)
      newPath == safePath(DATA_DIR, relNew)
      out == renameSync(f, oldPath, newPath)
      r(status) == Response("rename", relOld, relNew, NoContent, <<>>, status, TRUE, <<>>)
  IN IF oldPath = NULL \/ newPath = NULL THEN [fs |-> f, resp |-> r(400)]
     ELSE IF ~existsSync(f, oldPath) THEN [fs |-> f, resp |-> r(404)]
     ELSE IF existsSync(f, newPath) THEN [fs |-> f, resp |-> r(409)]
     ELSE IF ~out.ok THEN [fs |-> out.fs, resp |-> r(500)]
     ELSE [fs |-> out.fs, resp |-> r(200)]

\* delete without the comparison with the root: the root itself is removed
delete_NoRootGuard(f, rel) ==
  LET filePath == safePath(DATA_DIR, rel)
      out == IF isDirectory(f, filePath) THEN rmSync(f, filePath)
             ELSE unlinkSync(f, filePath)
  IN IF filePath = NULL THEN [fs |-> f, resp |-> Answer("delete", rel, 400)]
     ELSE IF ~existsSync(f, filePath) THEN [fs |-> f, resp |-> Answer("delete", rel, 404)]
     ELSE IF ~out.ok THEN [fs |-> out.fs, resp |-> Uncaught("delete", rel)]
     ELSE [fs |-> out.fs, resp |-> Answer("delete", rel, 200)]

\* DELETE /api/files?path=  (the filesystem calls are outside any try)
delete(f, rel) ==
  LET filePath == safePath(DATA_DIR, rel)
      out == IF isDirectory(f, filePath) THEN rmSync(f, filePath)
             ELSE unlinkSync(f, filePath)
  IN IF filePath = NULL \/ filePath = DataRoot
     THEN [fs |-> f, resp |-> Answer("delete", rel, 400)]
     ELSE IF ~existsSync(f, filePath) THEN [fs |-> f, resp |-> Answer("delete", rel, 404)]
     ELSE IF ~out.ok THEN [fs |-> out.fs, resp |-> Uncaught("delete", rel)]
     ELSE [fs |-> out.fs, resp |-> Answer("delete", rel, 200)]

(* ------------------------------ uploads ------------------------------- *)

JAR == <<".", "j", "a", "r">>

DISABLED == <<".", "d", "i", "s", "a", "b", "l", "e", "d">>

\* modUpload.fileFilter; fileUpload has no filter
fileFilter(mode, file) ==
  mode = "file" \/ ToLowerCase(Extname(file.name)) = JAR

\* modStorage.destination and fileStorage.destination: the directory a file
\* of the request is stored in, ok FALSE when the callback reports an error
\* or its mkdirSync throws
destination(mode, f, rel) ==
  LET resolved == JoinResolve(DATA_DIR, rel)
      made == IF ~existsSync(f, resolved) THEN mkdirSync(f, resolved) ELSE Done(f)
  IN IF mode = "mod" THEN [ok |-> TRUE, fs |-> f, dir |-> ModsRoot]
     ELSE IF ~StartsWith(PathStr(resolved), PathStr(DataRoot))
          THEN [ok |-> FALSE, fs |-> f, dir |-> NULL]
     ELSE [ok |-> made.ok, fs |-> made.fs, dir |-> resolved]

\* what the upload middleware does when a file fails: the files this request
\* has stored so far are unlinked again, then the error goes to next()
RECURSIVE RemoveUploaded(_, _)
RemoveUploaded(f, stored) ==
  IF stored = <<>> THEN f
  ELSE RemoveUploaded(unlinkSync(f, Head(stored)).fs, Tail(stored))

\* the upload middleware (.array(field, 20)) over the files of one request,
\* in order: filter, destination, filename = originalname, write
RECURSIVE StoreFrom(_, _, _, _, _, _)
StoreFrom(mode, f, rel, files, i, stored) ==
  IF i > Len(files) THEN [ok |-> TRUE, fs |-> f]
  ELSE IF ~fileFilter(mode, files[i]) THEN [ok |-> FALSE, fs |-> RemoveUploaded(f, stored)]
  ELSE LET dest == destination(mode, f, rel)
           final == Child(dest.dir, files[i].name)
           w == writeFileSync(dest.fs, final, files[i].data)
       IN IF ~dest.ok THEN [ok |-> FALSE, fs |-> RemoveUploaded(dest.fs, stored)]
          ELSE IF ~w.ok THEN [ok |-> FALSE, fs |-> RemoveUploaded(dest.fs, stored)]
          ELSE StoreFrom(mode, w.fs, rel, files, i + 1, Append(stored, final))

\* POST /api/files/upload?path= and POST /api/mods: the middleware, then the
\* handler, which answers 400 to a request without files and else reports
\* req.files.length, the count of the files stored
uploadRequest(mode, op, f, rel, files) ==
  LET out == StoreFrom(mode, f, rel, files, 1, <<>>)
      r(status, json, body) == Response(op, rel, <<>>, NoContent, files, status, json, body)
  IN IF ~out.ok THEN [fs |-> out.fs, resp |-> r(500, FALSE, <<>>)]
     ELSE IF Len(files) = 0 THEN [fs |-> out.fs, resp |-> r(400, TRUE, <<>>)]
     ELSE [fs |-> out.fs, resp |-> r(200, TRUE, <<Len(files)>>)]

upload(f, rel, files) == uploadRequest("file", "upload", f, rel, files)

(* ------------------------------ Mod Store ----------------------------- *)

modUpload(f, files) == uploadRequest("mod", "modUpload", f, <<>>, files)

\* the entry GET /api/mods reports for the file `name`
ModEntry(f, name) ==
  [name |-> name, size |-> Size(f[Child(ModsRoot, name)].data),
   enabled |-> EndsWith(name, JAR)]

\* GET /api/mods (readdirSync is outside any try)
modList(f) ==
  LET shown == {n \in readdirSync(f, ModsRoot) :
                  EndsWith(n, JAR) \/ EndsWith(n, JAR \o DISABLED)}
      names == Enumerate(shown)
  IN IF ~existsSync(f, ModsRoot) \/ ~isDirectory(f, ModsRoot)
     THEN [fs |-> f, resp |-> Uncaught("modList", <<>>)]
     ELSE [fs |-> f,
           resp |-> Response("modList", <<>>, <<>>, NoContent, <<>>, 200, TRUE,
                             [i \in 1..Len(names) |-> ModEntry(f, names[i])])]

\* DELETE /api/mods/:name (unlinkSync is outside any try)
modDelete(f, name) ==
  LET filePath == JoinResolve(MODS_DIR, name)
      out == unlinkSync(f, filePath)
  IN IF ~existsSync(f, filePath) THEN [fs |-> f, resp |-> Answer("modDelete", name, 404)]
     ELSE IF ~out.ok THEN [fs |-> out.fs, resp |-> Uncaught("modDelete", name)]
     ELSE [fs |-> out.fs, resp |-> Answer("modDelete", name, 200)]

\* the name PATCH /api/mods/:name/toggle renames to, NULL for no mod file
toggleName(name) ==
  IF EndsWith(name, JAR \o DISABLED) THEN ReplaceFirst(name, JAR \o DISABLED, JAR)
  ELSE IF EndsWith(name, JAR) THEN name \o DISABLED
  ELSE NULL

\* PATCH /api/mods/:name/toggle (renameSync is outside any try)
modToggle(f, name) ==
  LET filePath == JoinResolve(MODS_DIR, name)
      newName == toggleName(name)
      out == renameSync(f, filePath, JoinResolve(MODS_DIR, newName))
      r(status) == Response("modToggle", name, newName, NoContent, <<>>, status, TRUE, <<>>)
  IN IF ~existsSync(f, filePath) THEN [fs |-> f, resp |-> Answer("modToggle", name, 404)]
     ELSE IF newName = NULL THEN [fs |-> f, resp |-> Answer("modToggle", name, 400)]
     ELSE IF ~out.ok THEN [fs |-> out.fs, resp |-> Uncaught("modToggle", name)]
     ELSE [fs |-> out.fs, resp |-> r(200)]

(* -------------------------- container runtime ------------------------- *)

\* "itzg/minecraft-server", the marker findMcContainer looks for
MARKER ==
  <<"i", "t", "z", "g", "/", "m", "i", "n", "e", "c", "r", "a", "f", "t", "-",
    "s", "e", "r", "v", "e", "r">>

\* String.prototype.includes
Includes(s, pat) == \E i \in 1..(Len(s) - Len(pat) + 1) : SubSeq(s, i, i + Len(pat) - 1) = pat

\* an entry of docker.listContainers({all: true})
Container(id, image) == [Id |-> id, Image |-> image]

\* The runtime: the containers in the order it lists them, and the ids of
\* the containers it accepted a restart command for
Runtime(containers, restarted) == [containers |-> containers, restarted |-> restarted]

\* the game server's container, image "itzg/minecraft-server:2"
McContainer == Container("mc", MARKER \o <<":", "2">>)

\* the service's own container, image "mod-manager"
OwnContainer == Container("own", <<"m", "o", "d", "-", "m", "a", "n", "a", "g", "e", "r">>)

\* a game server from a registry mirror, image "x/itzg/minecraft-server"
MirrorContainer == Container("mirror", <<"x", "/">> \o MARKER)

(* ------------------------- requests being served ---------------------- *)

\* A request whose handler has not returned its answer to the client yet:
\* pc is the handler's position ("queued": accepted, the handler has not
\* run; "answered": the handler has answered with `status`), found is what
\* an awaited call gave the handler, attempts the awaited calls it has made
Request(id, op, path, pc, status, found, attempts) ==
  [id |-> id, op |-> op, path |-> path, pc |-> pc, status |-> status,
   found |-> found, attempts |-> attempts]

\* What an awaited call settled with: "resolved" with a container id
\* (findMcContainer), a list of containers (listContainers) or a status
\* result (mcStatus), or "rejected" with the message of its error; "none"
\* while nothing was awaited
Awaited(settled, message, container, containers, result) ==
  [settled |-> settled, message |-> message, container |-> container,
   containers |-> containers, result |-> result]

\* result.players, result.version, result.motd and result.roundTripLatency
\* of a status query; a part the result lacks is not `defined`
StatusResult(players, version, motd, latency) ==
  [players |-> players, version |-> version, motd |-> motd, roundTripLatency |-> latency]

Players(defined, online, max) == [defined |-> defined, online |-> online, max |-> max]

Version(defined, name) == [defined |-> defined, name |-> name]

Motd(defined, clean) == [defined |-> defined, clean |-> clean]

NoPlayers == Players(FALSE, 0, 0)

NoVersion == Version(FALSE, "")

NoMotd == Motd(FALSE, "")

NoResult == StatusResult(NoPlayers, NoVersion, NoMotd, 0)

NoValue == Awaited("none", "", "", <<>>, NoResult)

Queued(id, op, path) == Request(id, op, path, "queued", 0, NoValue, 0)

\* the request r, answered with the status of the response out
Answered(r, out) == [r EXCEPT !.pc = "answered", !.status = out.resp.status]

(* ----------------------- status and lifecycle ------------------------ *)

\* the snapshot GET /api/status answers with
Snapshot(online, players, version, motd, latency, error) ==
  [online |-> online, players |-> players, version |-> version, motd |-> motd,
   latency |-> latency, error |-> error]

Offline(error) == Snapshot(FALSE, NoPlayers, NoVersion, NoMotd, 0, error)

\* the message of the TypeError a read of a property of undefined throws
TYPE_ERROR == "Cannot read properties of undefined"

\* GET /api/status without its try/catch: a failure leaves the handler
statusProbe_NoCatch(outcome) ==
  LET result == outcome.result
      r(snapshot) == Response("status", <<>>, <<>>, NoContent, <<>>, 200, TRUE, <<snapshot>>)
  IN IF outcome.settled = "rejected" THEN [resp |-> Uncaught("status", <<>>)]
     ELSE IF ~result.players.defined \/ ~result.version.defined \/ ~result.motd.defined
          THEN [resp |-> Uncaught("status", <<>>)]
     ELSE [resp |-> r(Snapshot(TRUE, result.players, result.version, result.motd,
                               result.roundTripLatency, ""))]

\* GET /api/status, from the point where the awaited mcStatus call has
\* settled with `outcome`: the snapshot is built inside the try, so a
\* rejection and a TypeError on a result that lacks a part both end in
\* the catch
statusProbe(outcome) ==
  LET result == outcome.result
      r(snapshot) == Response("status", <<>>, <<>>, NoContent, <<>>, 200, TRUE, <<snapshot>>)
  IN IF outcome.settled = "rejected" THEN [resp |-> r(Offline(outcome.message))]
     ELSE IF ~result.players.defined \/ ~result.version.defined \/ ~result.motd.defined
          THEN [resp |-> r(Offline(TYPE_ERROR))]
     ELSE [resp |-> r(Snapshot(TRUE, result.players, result.version, result.motd,
                               result.roundTripLatency, ""))]

\* containers.find(c => c.Image.includes(MARKER)): the id of the first
\* container of the list that matches, "" for undefined
RECURSIVE Find(_)
Find(containers) ==
  IF containers = <<>> THEN ""
  ELSE IF Includes(Head(containers).Image, MARKER) THEN Head(containers).Id
  ELSE Find(Tail(containers))

\* findMcContainer that takes the first container, whatever its image
findMcContainer_AnyImage(listing) ==
  IF listing.settled = "rejected" \/ listing.containers = <<>> THEN NoValue
  ELSE Awaited("resolved", "", Head(listing.containers).Id, <<>>, NoResult)

\* findMcContainer, from the point where the awaited listContainers call
\* has settled with `listing`: a rejection is caught and logged, and like a
\* list without a match it ends in `return null` (NoValue)
findMcContainer(listing) ==
  IF listing.settled = "rejected" THEN NoValue
  ELSE IF Find(listing.containers) = "" THEN NoValue
  ELSE Awaited("resolved", "", Find(listing.containers), <<>>, NoResult)

\* the ids of the containers of the runtime
Ids(rt) == {rt.containers[i].Id : i \in 1..Len(rt.containers)}

\* the answers of POST /api/restart
restartAnswer(status, body) ==
  Response("restart", <<>>, <<>>, NoContent, <<>>, status, TRUE, body)

(* --------------------------- state machine ---------------------------- *)

ListDirectory(rel) ==
  \E order \in Orders(Entries(fs, rel)) :
    LET out == listDirectory(fs, rel, order)
    IN /\ fs' = out.fs
       /\ resp' = out.resp
       /\ UNCHANGED <<inflight, docker>>

ReadFile(rel) ==
  LET out == readFile(fs, rel)
  IN /\ fs' = out.fs
     /\ resp' = out.resp
     /\ UNCHANGED <<inflight, docker>>

WriteFile(rel, c) ==
  LET out == writeFile(fs, rel, c)
  IN /\ fs' = out.fs
     /\ resp' = out.resp
     /\ UNCHANGED <<inflight, docker>>

CreateFile(rel) ==
  LET out == createFile(fs, rel)
  IN /\ fs' = out.fs
     /\ resp' = out.resp
     /\ UNCHANGED <<inflight, docker>>

CreateDirectory(rel) ==
  LET out == createDirectory(fs, rel)
  IN /\ fs' = out.fs
     /\ resp' = out.resp
     /\ UNCHANGED <<inflight, docker>>

Rename(relOld, relNew) ==
  LET out == rename(fs, relOld, relNew)
  IN /\ fs' = out.fs
     /\ resp' = out.resp
     /\ UNCHANGED <<inflight, docker>>

Delete(rel) ==
  LET out == delete(fs, rel)
  IN /\ fs' = out.fs
     /\ resp' = out.resp
     /\ UNCHANGED <<inflight, docker>>

UploadFiles(rel, files) ==
  LET out == upload(fs, rel, files)
  IN /\ fs' = out.fs
     /\ resp' = out.resp
     /\ UNCHANGED <<inflight, docker>>

ModList ==
  LET out == modList(fs)
  IN /\ fs' = out.fs
     /\ resp' = out.resp
     /\ UNCHANGED <<inflight, docker>>

ModUpload(files) ==
  LET out == modUpload(fs, files)
  IN /\ fs' = out.fs
     /\ resp' = out.resp
     /\ UNCHANGED <<inflight, docker>>

ModDelete(name) ==
  LET out == modDelete(fs, name)
  IN /\ fs' = out.fs
     /\ resp' = out.resp
     /\ UNCHANGED <<inflight, docker>>

ModToggle(name) ==
  LET out == modToggle(fs, name)
  IN /\ fs' = out.fs
     /\ resp' = out.resp
     /\ UNCHANGED <<inflight, docker>>

\* A create request arrives while others are being served: it is accepted
\* and its handler runs at a later turn of the event loop.
Accept(id, op, rel) ==
  /\ op \in {"create", "mkdir"}
  /\ \A r \in inflight : r.id # id
  /\ inflight' = inflight \cup {Queued(id, op, rel)}
  /\ UNCHANGED <<fs, resp, docker>>

\* The handler of a queued POST /api/files/create runs; it makes no
\* asynchronous call, so it runs from its first statement to its answer.
RunCreateFile(id) ==
  \E r \in inflight :
    /\ r.id = id /\ r.op = "create" /\ r.pc = "queued"
    /\ LET out == createFile(fs, r.path)
       IN /\ fs' = out.fs
          /\ resp' = out.resp
          /\ inflight' = (inflight \ {r}) \cup {Answered(r, out)}
    /\ UNCHANGED docker

\* The handler of a queued POST /api/files/mkdir runs, likewise.
RunCreateDirectory(id) ==
  \E r \in inflight :
    /\ r.id = id /\ r.op = "mkdir" /\ r.pc = "queued"
    /\ LET out == createDirectory(fs, r.path)
       IN /\ fs' = out.fs
          /\ resp' = out.resp
          /\ inflight' = (inflight \ {r}) \cup {Answered(r, out)}
    /\ UNCHANGED docker

\* The answer of a request reaches its client.
Complete(id) ==
  \E r \in inflight :
    /\ r.id = id /\ r.pc = "answered"
    /\ inflight' = inflight \ {r}
    /\ UNCHANGED <<fs, resp, docker>>

\* GET /api/status arrives: the handler calls mcStatus once and awaits it.
StatusBegin(id) ==
  /\ \A r \in inflight : r.id # id
  /\ inflight' = inflight \cup {Request(id, "status", <<>>, "awaiting", 0, NoValue, 1)}
  /\ UNCHANGED <<fs, resp, docker>>

\* The status query settles with `outcome` and the handler answers.
StatusEnd(id, outcome) ==
  \E r \in inflight :
    /\ r.id = id /\ r.op = "status" /\ r.pc = "awaiting"
    /\ resp' = statusProbe(outcome).resp
    /\ inflight' = inflight \ {r}
    /\ UNCHANGED <<fs, docker>>

\* POST /api/restart arrives: the handler calls findMcContainer, which
\* calls docker.listContainers and awaits it.
RestartBegin(id) ==
  /\ \A r \in inflight : r.id # id
  /\ inflight' = inflight \cup {Request(id, "restart", <<>>, "listing", 0, NoValue, 0)}
  /\ UNCHANGED <<fs, resp, docker>>

\* The listing settles, with the runtime's containers or (listed FALSE)
\* with an error.  Without a container the handler answers 404; with one it
\* calls container.restart() and awaits it.
RestartFound(id, listed) ==
  \E r \in inflight :
    /\ r.id = id /\ r.op = "restart" /\ r.pc = "listing"
    /\ LET listing == IF listed THEN Awaited("resolved", "", "", docker.containers, NoResult)
                      ELSE Awaited("rejected", "connect ENOENT", "", <<>>, NoResult)
           container == findMcContainer(listing)
       IN IF container = NoValue
          THEN /\ resp' = restartAnswer(404, <<>>)
               /\ inflight' = inflight \ {r}
          ELSE /\ resp' = resp
               /\ inflight' = (inflight \ {r}) \cup
                    {[r EXCEPT !.pc = "restarting", !.found = container, !.attempts = 1]}
    /\ UNCHANGED <<fs, docker>>

\* The restart command settles: the runtime accepted it, which it only
\* does for a container it has, or the call failed; the handler answers
\* 200, or 500 with the error's message.
RestartEnd(id, accepted) ==
  \E r \in inflight :
    /\ r.id = id /\ r.op = "restart" /\ r.pc = "restarting"
    /\ accepted => r.found.container \in Ids(docker)
    /\ IF accepted
       THEN /\ docker' = [docker EXCEPT !.restarted = @ \cup {r.found.container}]
            /\ resp' = restartAnswer(200, <<>>)
       ELSE /\ docker' = docker
            /\ resp' = restartAnswer(500, <<IF r.found.container \in Ids(docker)
                                             THEN "server error" ELSE "no such container">>)
    /\ inflight' = inflight \ {r}
    /\ UNCHANGED fs

\* The runtime's containers change: one is created or removed.
DockerChange(containers) ==
  /\ containers # docker.containers
  /\ docker' = [docker EXCEPT !.containers = containers]
  /\ UNCHANGED <<fs, resp, inflight>>

\* At start-up the two roots exist (the mods root is created when missing),
\* no request has been served or is being served, and the runtime runs the
\* game server's container next to the service's own.
Init ==
  /\ fs = [p \in {<<>>, <<APP>>, DataRoot, ModsRoot} |-> DirEntry]
  /\ resp = Response("none", <<>>, <<>>, NoContent, <<>>, 0, TRUE, <<>>)
  /\ inflight = {}
  /\ docker = Runtime(<<McContainer, OwnContainer>>, {})

(* ------------------------------- inputs ------------------------------- *)

\* the most files one upload request of the model carries
MaxBatch == 2

\* the multipart bodies of at most MaxBatch files drawn from `files`
Batches(files) == UNION {[1..n -> files] : n \in 0..MaxBatch}

\* ""
RelRoot == <<>>

\* "d"
RelD == <<"d">>

\* "e"
RelE == <<"e">>

\* "d/f"
RelDF == <<"d", SLASH, "f">>

\* "../data2": a sibling of the root whose name has the root's name as a prefix
RelSibling == <<DOT, DOT, SLASH, "d", "a", "t", "a", "2">>

\* "d/../../x": leaves the root in the middle of the path
RelEscape == <<"d", SLASH, DOT, DOT, SLASH, DOT, DOT, SLASH, "x">>

\* "/x": an absolute path
RelAbsolute == <<SLASH, "x">>

\* "s.jar"
RelJar == <<"s">> \o JAR

\* "a"
TextA == JsString(<<97>>, 0)

Contents == {NoContent, Content(TextA)}

\* a file "u" holding "a"
FileU == Upload(<<"u">>, FileData(<<97>>, 0))

\* the requests of the File Tree Manager, their inputs drawn from the given sets
FileRequests(paths, renames, contents, uploads, files) ==
  \/ \E rel \in paths : ListDirectory(rel)
  \/ \E rel \in paths : ReadFile(rel)
  \/ \E rel \in paths, c \in contents : WriteFile(rel, c)
  \/ \E rel \in paths : CreateFile(rel)
  \/ \E rel \in paths : CreateDirectory(rel)
  \/ \E relOld \in renames, relNew \in renames : Rename(relOld, relNew)
  \/ \E rel \in paths : Delete(rel)
  \/ \E rel \in uploads, batch \in Batches(files) : UploadFiles(rel, batch)

ConfinePaths == {RelRoot, RelD, RelSibling, RelEscape, RelAbsolute}

NextConfine ==
  FileRequests(ConfinePaths, {RelD, RelSibling, RelEscape}, {Content(TextA)},
               ConfinePaths, {FileU})

\* the File Tree Manager under requests whose paths stay in, leave, or only
\* seem to stay in the root
SpecConfine == Init /\ [][NextConfine]_vars

TreePaths == {RelRoot, RelD, RelDF}

NextFiles == FileRequests(TreePaths, {RelRoot, RelD, RelE}, Contents, {RelD}, {FileU})

\* the File Tree Manager under requests inside the root
SpecFiles == Init /\ [][NextFiles]_vars

\* "a.jar"
ModA == <<"a">> \o JAR

\* "a.jar.disabled"
ModADisabled == ModA \o DISABLED

\* "a.jar.disabled.jar": an enabled mod whose name holds the disabled form
ModNested == ModADisabled \o JAR

\* "a.jar.disabled.jar.disabled"
ModNestedDisabled == ModNested \o DISABLED

\* "n.txt"
NameTxt == <<"n", ".", "t", "x", "t">>

\* "../data/s.jar": the route parameter `..%2Fdata%2Fs.jar`, decoded
NameTraversal == <<DOT, DOT, SLASH, "d", "a", "t", "a", SLASH>> \o RelJar

ModNames == {ModA, ModADisabled, ModNested, ModNestedDisabled, NameTxt, NameTraversal}

ModFiles == {Upload(ModA, FileData(<<97>>, 0)), Upload(ModNested, FileData(<<97>>, 0)),
             Upload(NameTxt, FileData(<<97>>, 0))}

\* the requests of the Mod Store, their inputs drawn from the given sets
ModRequests(names, files) ==
  \/ ModList
  \/ \E batch \in Batches(files) : ModUpload(batch)
  \/ \E name \in names : ModDelete(name)
  \/ \E name \in names : ModToggle(name)

NextMods ==
  \/ ModRequests(ModNames, ModFiles)
  \/ CreateFile(RelJar)

\* the Mod Store under any sequence of its requests, next to a data file
\* that the File Tree Manager created
SpecMods == Init /\ [][NextMods]_vars

\* "é"
TextE == JsString(<<233>>, 0)

\* "😀": one code point above U+FFFF, a surrogate pair
TextPair == JsString(<<55357, 56832>>, 0)

\* "\ud83d": an unpaired high surrogate (JSON.parse accepts "\ud83d")
TextLoneHigh == JsString(<<55357>>, 0)

\* "a\ude00": an unpaired low surrogate after a letter
TextLoneLow == JsString(<<97, 56832>>, 0)

\* "aa...a", 512 KiB + 1 of them: more than a JSON body may carry
TextHuge == JsString(<<>>, READ_CAP + 1)

TextContents ==
  {NoContent, Content(EmptyString), Content(TextA), Content(TextE), Content(TextPair),
   Content(TextLoneHigh), Content(TextLoneLow), Content(TextHuge)}

NextContent == FileRequests({RelD, RelE}, {RelD, RelE}, TextContents, {RelD}, {FileU})

\* the File Tree Manager writing and reading text of every kind
SpecContent == Init /\ [][NextContent]_vars

\* "a.JAR": the archive extension in upper case
ModUpper == <<"a", ".", "J", "A", "R">>

\* "b.jar"
ModB == <<"b">> \o JAR

UploadNames == {ModA, ModB, ModUpper, NameTxt}

UploadedMods == {Upload(ModA, FileData(<<97>>, 0)), Upload(ModB, FileData(<<98>>, 0)),
                 Upload(ModUpper, FileData(<<97>>, 0)), Upload(NameTxt, FileData(<<97>>, 0))}

NextUpload == ModRequests(UploadNames, UploadedMods)

\* the Mod Store under uploads of archives and of other files
SpecUpload == Init /\ [][NextUpload]_vars

\* "u"
RelU == <<"u">>

\* files named "u": one byte less than the read cap, exactly the cap, one
\* byte more, and two bytes that are no UTF-8 text (0xFF 0xFE)
FileUnder == Upload(RelU, FileData(<<>>, READ_CAP - 1))

FileAtCap == Upload(RelU, FileData(<<>>, READ_CAP))

FileOver == Upload(RelU, FileData(<<>>, READ_CAP + 1))

FileBinary == Upload(RelU, FileData(<<255, 254>>, 0))

NextRead ==
  FileRequests({RelU}, {RelU, RelD}, {Content(TextE)}, {RelRoot},
               {FileUnder, FileAtCap, FileOver, FileBinary})

\* the File Tree Manager reading files of every size and kind, which
\* uploads put there
SpecRead == Init /\ [][NextRead]_vars

\* "a"
RelA == <<"a">>

\* "c"
RelC == <<"c">>

\* "b.txt"
RelBTxt == <<"b", ".", "t", "x", "t">>

\* "é" and "é": two names, the same text to the locale
RelEAcute == <<EACUTE>>

RelEThenAcute == <<"e", ACUTE>>

ListNames == {RelA, RelC, RelBTxt, RelEAcute, RelEThenAcute}

NextList ==
  \/ \E rel \in {RelBTxt, RelEAcute, RelEThenAcute} : CreateFile(rel)
  \/ \E rel \in {RelA, RelC, RelEAcute} : CreateDirectory(rel)
  \/ \E rel \in ListNames : Delete(rel)
  \/ ListDirectory(RelRoot)

\* the File Tree Manager listing a directory of files and directories
SpecList == Init /\ [][NextList]_vars

NextRoot ==
  FileRequests({RelRoot, RelD}, {RelRoot, RelSibling}, Contents, {RelD}, {FileU})

\* the File Tree Manager under requests that name the root itself, also as
\* an end of a rename
SpecRoot == Init /\ [][NextRoot]_vars

\* the most create requests served at the same time
MaxInFlight == 2

RequestIds == 1..MaxInFlight

\* Create requests for "d/f" that overlap; between two races "d" is made a
\* file, a directory, or removed.
NextRace ==
  \/ \E id \in RequestIds, op \in {"create", "mkdir"} : Accept(id, op, RelDF)
  \/ \E id \in RequestIds : RunCreateFile(id)
  \/ \E id \in RequestIds : RunCreateDirectory(id)
  \/ \E id \in RequestIds : Complete(id)
  \/ inflight = {} /\ WriteFile(RelD, Content(TextA))
  \/ inflight = {} /\ Delete(RelD)

\* the File Tree Manager under overlapping create requests
SpecRace == Init /\ [][NextRace]_vars

\* what a status query may settle with: a full result, a result that
\* lacks `players`, one that lacks `version`, and three errors
FullResult ==
  StatusResult(Players(TRUE, 1, 20), Version(TRUE, "1.20"), Motd(TRUE, "A server"), 5)

StatusOutcomes ==
  {Awaited("resolved", "", "", <<>>, FullResult),
   Awaited("resolved", "", "", <<>>, [FullResult EXCEPT !.players = NoPlayers]),
   Awaited("resolved", "", "", <<>>, [FullResult EXCEPT !.version = NoVersion]),
   Awaited("rejected", "Timed out", "", <<>>, NoResult),
   Awaited("rejected", "connect ECONNREFUSED", "", <<>>, NoResult),
   Awaited("rejected", "Unexpected packet", "", <<>>, NoResult)}

\* the lists of containers the runtime goes through
ContainerLists ==
  {<<McContainer, OwnContainer>>, <<OwnContainer>>, <<OwnContainer, MirrorContainer>>}

NextOps ==
  \/ \E id \in RequestIds : StatusBegin(id)
  \/ \E id \in RequestIds, outcome \in StatusOutcomes : StatusEnd(id, outcome)
  \/ \E id \in RequestIds : RestartBegin(id)
  \/ \E id \in RequestIds, listed \in BOOLEAN : RestartFound(id, listed)
  \/ \E id \in RequestIds, accepted \in BOOLEAN : RestartEnd(id, accepted)
  \/ \E containers \in ContainerLists : DockerChange(containers)

\* the status probe and the lifecycle controller, next to a runtime whose
\* containers come and go
SpecOps == Init /\ [][NextOps]_vars

Next ==
  \/ FileRequests({RelD}, {RelD, RelE}, {Content(TextA)}, {RelD}, {FileU})
  \/ ModRequests({ModA, ModADisabled}, {Upload(ModA, FileData(<<97>>, 0))})

\* the whole service
Spec == Init /\ [][Next]_vars

(* ------------------------------ properties ---------------------------- *)

\* the operations that pass resp.path through safePath
SafePathOps == {"list", "read", "write", "create", "mkdir", "delete"}

\* the string p is the string root, or root followed by "/" and more
Contained(root, p) == p = root \/ StartsWith(p, root \o <<SLASH>>)

\* C1: safePath returns a path only when the resolved path is the root or
\* starts with the root followed by a separator, rejects every other path
\* (a path that only has the root as a string prefix included), and resolves
\* the empty path to the root.
C1_SafePathBoundaryAware ==
  resp.op \in SafePathOps =>
    LET full == Resolve(DATA_DIR, resp.path)
        got == safePath(DATA_DIR, resp.path)
    IN /\ got # NULL <=> Contained(PathStr(DataRoot), PathStr(full))
       /\ got # NULL => got = full
       /\ resp.path = <<>> => got = DataRoot

\* the path of the request r fails the confinement check of its handler
FailsConfinement(r) ==
  CASE r.op \in SafePathOps -> safePath(DATA_DIR, r.path) = NULL
    [] r.op = "rename" ->
         safePath(DATA_DIR, r.path) = NULL \/ safePath(DATA_DIR, r.path2) = NULL
    [] r.op = "upload" ->
         ~StartsWith(PathStr(JoinResolve(DATA_DIR, r.path)), PathStr(DataRoot))
    [] OTHER -> FALSE

\* C2: a File Tree Manager request whose path (for rename: either path)
\* fails confinement is answered 400 with the handler's error body and
\* changes nothing in the filesystem.
C2_InvalidPathUniform ==
  [][FailsConfinement(resp') =>
       (resp'.status = 400 /\ resp'.json /\ fs' = fs)]_vars

\* the entry s lies directly inside the mods root
InModsRoot(s) == Len(s) = Len(ModsRoot) + 1 /\ IsPrefix(ModsRoot, s)

\* everything of the filesystem that is not directly inside the mods root
OutsideMods(f) == [s \in {q \in DOMAIN f : ~InModsRoot(q)} |-> f[s]]

HasSeparator(name) == \E i \in 1..Len(name) : name[i] = SLASH

\* C3: Mod Store delete and toggle never succeed on a name that holds a
\* path separator, and no Mod Store request changes an entry that is not
\* directly inside the mods root.
C3_ModNamesConfined ==
  [][resp'.op \in {"modDelete", "modToggle"} =>
       /\ HasSeparator(resp'.path) => (resp'.status # 200 /\ fs' = fs)
       /\ OutsideMods(fs') = OutsideMods(fs)]_vars

\* C4: no name of the mods root is there in its enabled form <base>.jar
\* and in its disabled form <base>.jar.disabled at once.
C4_OneFormPerBase ==
  \A n \in readdirSync(fs, ModsRoot) :
    ~(EndsWith(n, JAR) /\ (n \o DISABLED) \in readdirSync(fs, ModsRoot))

\* C5: a successful toggle, then a successful toggle of the name the first
\* one produced, gives the file its original name (and so its original
\* enabled state) back.
C5_ToggleInvolution ==
  [][(/\ resp.op = "modToggle" /\ resp.status = 200
      /\ resp'.op = "modToggle" /\ resp'.status = 200
      /\ resp'.path = resp.path2)
       => /\ resp'.path2 = resp.path
          /\ EndsWith(resp'.path2, JAR) = EndsWith(resp.path, JAR)
          /\ existsSync(fs', JoinResolve(MODS_DIR, resp.path))]_vars

\* C6: a rename whose source exists and whose target already exists (both
\* paths confined) is answered 409 and leaves the whole filesystem, so the
\* source and the target, as they were.
C6_RenameKeepsTarget ==
  [][resp'.op = "rename" =>
       LET oldPath == safePath(DATA_DIR, resp'.path)
           newPath == safePath(DATA_DIR, resp'.path2)
       IN (/\ oldPath # NULL /\ newPath # NULL
           /\ existsSync(fs, oldPath) /\ existsSync(fs, newPath))
            => (resp'.status = 409 /\ fs' = fs)]_vars

\* a rename of an existing file onto another existing entry was refused
C6_Witness ==
  /\ resp.op = "rename" /\ resp.status = 409
  /\ resp.path # resp.path2
  /\ existsSync(fs, safePath(DATA_DIR, resp.path))
  /\ ~isDirectory(fs, safePath(DATA_DIR, resp.path))
  /\ existsSync(fs, safePath(DATA_DIR, resp.path2))

\* C7: createFile on a confined path that exists, as a file or a
\* directory, is answered 409 and changes nothing; a successful createFile
\* leaves an empty file, and the next createFile of the same path is
\* answered 409.
C7_CreateRejectsExisting ==
  [][resp'.op = "create" =>
       LET filePath == safePath(DATA_DIR, resp'.path)
       IN /\ (filePath # NULL /\ existsSync(fs, filePath))
               => (resp'.status = 409 /\ fs' = fs)
          /\ resp'.status = 200
               => (existsSync(fs', filePath) /\ fs'[filePath] = FileEntry(EmptyData))
          /\ (resp.op = "create" /\ resp.status = 200 /\ resp.path = resp'.path)
               => resp'.status = 409]_vars

\* createFile was refused on a file that holds text written by writeFile
C7_Witness ==
  /\ resp.op = "create" /\ resp.status = 409
  /\ fs[safePath(DATA_DIR, resp.path)] = FileEntry(FileData(<<97>>, 0))

\* no surrogate of the string stands without its partner
WellFormed(str) ==
  LET u == str.units
  IN /\ \A i \in 1..Len(u) :
          /\ IsHighSurrogate(u[i]) => (i < Len(u) /\ IsLowSurrogate(u[i + 1]))
          /\ IsLowSurrogate(u[i]) => (i > 1 /\ IsHighSurrogate(u[i - 1]))

\* C8 as stated: readFile right after a successful writeFile of the same
\* path returns exactly the content written (the empty string for an
\* absent content), for every content under the size cap.
C8_WriteReadExact ==
  [][(/\ resp.op = "write" /\ resp.status = 200
      /\ Size(EncodeString(ContentOrEmpty(resp.content))) < READ_CAP
      /\ resp'.op = "read" /\ resp'.path = resp.path)
       => (resp'.status = 200 /\ resp'.body = <<ContentOrEmpty(resp.content)>>)]_vars

\* C8 as amended: readFile right after a successful writeFile of the same
\* path returns exactly the content written (the empty string for an
\* absent content), for every content under the size cap that is
\* well-formed text, that is, holds no unpaired surrogate.
C8_WriteReadWellFormed ==
  [][(/\ resp.op = "write" /\ resp.status = 200
      /\ WellFormed(ContentOrEmpty(resp.content))
      /\ Size(EncodeString(ContentOrEmpty(resp.content))) < READ_CAP
      /\ resp'.op = "read" /\ resp'.path = resp.path)
       => (resp'.status = 200 /\ resp'.body = <<ContentOrEmpty(resp.content)>>)]_vars

\* a read returned text outside ASCII, which only writeFile stores
C8_Witness ==
  /\ resp.op = "read" /\ resp.status = 200
  /\ resp.body = <<TextPair>>

\* the request r is one that creates the entry s: it names s, an entry
\* below s or, for a rename and a toggle, moves an entry to s or above it
Creates(r, s) ==
  CASE r.op \in {"write", "create", "mkdir"} -> IsPrefix(s, safePath(DATA_DIR, r.path))
    [] r.op = "rename" -> IsPrefix(safePath(DATA_DIR, r.path2), s)
    [] r.op = "upload" ->
         \E i \in 1..Len(r.files) :
           IsPrefix(s, Child(JoinResolve(DATA_DIR, r.path), r.files[i].name))
    [] r.op = "modUpload" ->
         \E i \in 1..Len(r.files) : s = Child(ModsRoot, r.files[i].name)
    [] r.op = "modToggle" -> s = JoinResolve(MODS_DIR, r.path2)
    [] OTHER -> FALSE

\* C9: a successful delete leaves neither the entry nor anything below it
\* (a deleted mod: its file); a listing shows exactly what the filesystem
\* holds at that moment; and an entry appears only by a request that
\* creates its name.  So a deleted entry is in no later listing until a
\* request creates it again.
C9_DeletedStaysGone ==
  [][/\ (resp'.op = "delete" /\ resp'.status = 200)
          => \A s \in DOMAIN fs' : ~IsPrefix(safePath(DATA_DIR, resp'.path), s)
     /\ (resp'.op = "modDelete" /\ resp'.status = 200)
          => ~existsSync(fs', JoinResolve(MODS_DIR, resp'.path))
     /\ (resp'.op = "list" /\ resp'.status = 200)
          => /\ fs' = fs
             /\ {resp'.body[i].name : i \in 1..Len(resp'.body)}
                  = readdirSync(fs', safePath(DATA_DIR, resp'.path))
     /\ (resp'.op = "modList" /\ resp'.status = 200)
          => /\ fs' = fs
             /\ {resp'.body[i].name : i \in 1..Len(resp'.body)}
                  \subseteq readdirSync(fs', ModsRoot)
     /\ \A s \in DOMAIN fs' \ DOMAIN fs : Creates(resp', s)]_vars

\* an entry was deleted and the listing of the root does not show its name
C9_Witness ==
  LET listing == listDirectory(fs, RelRoot, Enumerate(Entries(fs, RelRoot))).resp
  IN /\ resp.op = "delete" /\ resp.status = 200
     /\ listing.status = 200
     /\ \A i \in 1..Len(listing.body) :
          listing.body[i].name # Basename(safePath(DATA_DIR, resp.path))

\* C10: delete of a path that resolves to the root is answered 400 and
\* removes nothing; of another confined path, 404 when it is absent, and
\* otherwise 200 with exactly the entry and everything below it removed.
C10_DeleteCases ==
  [][resp'.op = "delete" =>
       LET filePath == safePath(DATA_DIR, resp'.path)
           below == {s \in DOMAIN fs : IsPrefix(filePath, s)}
       IN /\ Resolve(DATA_DIR, resp'.path) = DataRoot
               => (resp'.status = 400 /\ fs' = fs)
          /\ (filePath # NULL /\ filePath # DataRoot /\ ~existsSync(fs, filePath))
               => (resp'.status = 404 /\ fs' = fs)
          /\ (filePath # NULL /\ filePath # DataRoot /\ existsSync(fs, filePath))
               => /\ resp'.status = 200
                  /\ DOMAIN fs' = DOMAIN fs \ below
                  /\ \A s \in DOMAIN fs' : fs'[s] = fs[s]]_vars

\* a delete of the root was refused while the root held entries
C10_Witness ==
  /\ resp.op = "delete" /\ resp.status = 400
  /\ resp.path = RelRoot
  /\ readdirSync(fs, DataRoot) # {}

\* the two requests were served at the same time and are both answered
Raced(a, b) ==
  /\ a.id # b.id
  /\ a.op \in {"create", "mkdir"} /\ b.op \in {"create", "mkdir"}
  /\ a.pc = "answered" /\ b.pc = "answered"
  /\ safePath(DATA_DIR, a.path) # NULL
  /\ safePath(DATA_DIR, a.path) = safePath(DATA_DIR, b.path)

\* C11 as stated: of two overlapping create requests for the same path, the
\* one that found the path absent succeeds and the other is answered 409.
C11_CreateRaceOneWinner ==
  \A a \in inflight, b \in inflight :
    (Raced(a, b) /\ a.status # 409) => (a.status = 200 /\ b.status = 409)

\* C11 as amended: two overlapping create requests for the same path never
\* both succeed; when the one that found the path absent succeeds, the
\* other is answered 409; when it fails (500: a regular file is in the
\* way of the path), the other is not answered with a success either.
C11_CreateRaceNoDoubleSuccess ==
  \A a \in inflight, b \in inflight :
    (Raced(a, b) /\ a.status # 409) =>
       /\ a.status \in {200, 500}
       /\ a.status = 200 => b.status = 409
       /\ a.status = 500 => b.status = 500
       /\ a.status = 500 =>
            \E k \in 0..Len(safePath(DATA_DIR, a.path)) :
              LET q == SubSeq(safePath(DATA_DIR, a.path), 1, k)
              IN existsSync(fs, q) /\ ~isDirectory(fs, q)

\* a createFile and a createDirectory of the same path overlapped, the
\* createDirectory won and the createFile was answered 409
C11_Witness ==
  \E a \in inflight, b \in inflight :
    /\ Raced(a, b)
    /\ a.op = "mkdir" /\ a.status = 200
    /\ b.op = "create" /\ b.status = 409

\* the entries a mod listing holds
Listed(r) == {r.body[i] : i \in 1..Len(r.body)}

\* C12: the list() that follows a successful mod upload shows every file of
\* the upload under its uploaded name with enabled = TRUE, and every entry
\* of a listing is enabled exactly when its name ends in ".jar" and
\* disabled exactly when it ends in ".jar.disabled".
C12_UploadVisible ==
  [][resp'.op = "modList" =>
       /\ (resp.op = "modUpload" /\ resp.status = 200) =>
            /\ resp'.status = 200
            /\ \A i \in 1..Len(resp.files) :
                 \E e \in Listed(resp') : e.name = resp.files[i].name /\ e.enabled
       /\ resp'.status = 200 =>
            \A e \in Listed(resp') :
              /\ e.enabled <=> EndsWith(e.name, JAR)
              /\ ~e.enabled <=> EndsWith(e.name, JAR \o DISABLED)]_vars

\* the file of an upload that the filter of mod uploads refuses
WrongType(file) == ToLowerCase(Extname(file.name)) # JAR

\* C13: a mod upload stores no file whose extension is not the archive
\* extension; a request that carries such a file, or no file, is answered
\* 400 by the handler; after a success every file of the request is in the
\* mods root with its content and the response reports their count.
C13_UploadTypeRejected ==
  [][resp'.op = "modUpload" =>
       LET files == resp'.files
           bad == \E i \in 1..Len(files) : WrongType(files[i])
       IN /\ \A s \in DOMAIN fs' \ DOMAIN fs : ~WrongType([name |-> Basename(s)])
          /\ (bad \/ Len(files) = 0) => (resp'.status = 400 /\ resp'.json)
          /\ resp'.status = 200 =>
               /\ \A s \in DOMAIN fs' \ DOMAIN fs : InModsRoot(s)
               /\ \A i \in 1..Len(files) :
                    /\ existsSync(fs', Child(ModsRoot, files[i].name))
                    /\ \E j \in i..Len(files) :
                         /\ files[j].name = files[i].name
                         /\ fs'[Child(ModsRoot, files[i].name)] = FileEntry(files[j].data)
               /\ resp'.body = <<Len(files)>>]_vars

\* C14: every request that fails is answered by its handler: a non-2xx
\* status with the handler's JSON body {error}.  No failure leaves the
\* handler uncaught (which the framework answers itself, without that body).
C14_FailuresCaught ==
  (resp.op # "none" /\ ~(resp.status \in 200..299)) => resp.json

\* C15: readFile of a regular file of READ_CAP bytes or more is refused
\* (400), and of a regular file of fewer bytes returns its text.
C15_ReadCapAtOrOver ==
  [][resp'.op = "read" =>
       LET filePath == safePath(DATA_DIR, resp'.path)
       IN (filePath # NULL /\ existsSync(fs, filePath) /\ ~isDirectory(fs, filePath)) =>
            /\ Size(fs[filePath].data) >= READ_CAP
                 => (resp'.status = 400 /\ resp'.body = <<>>)
            /\ (Size(fs[filePath].data) < READ_CAP /\ fs[filePath].data.bytes = <<>>)
                 => (resp'.status = 200 /\ resp'.body = <<JsString(<<>>, Size(fs[filePath].data))>>)]_vars

\* the bytes are the UTF-8 encoding of some text
Decodable(d) == Utf8Encode(Utf8DecodeFrom(d.bytes, 1)) = d.bytes

\* C16: readFile of a confined path that is absent or a directory is
\* refused (400); of a file whose bytes are no text it is refused (400)
\* and returns no content; content is returned only for an existing
\* regular file whose bytes are text.
C16_ReadNotAFileNotText ==
  [][resp'.op = "read" =>
       LET filePath == safePath(DATA_DIR, resp'.path)
       IN filePath # NULL =>
            /\ (~existsSync(fs, filePath) \/ isDirectory(fs, filePath))
                 => (resp'.status = 400 /\ resp'.body = <<>>)
            /\ (existsSync(fs, filePath) /\ ~isDirectory(fs, filePath)
                  /\ ~Decodable(fs[filePath].data))
                 => (resp'.status = 400 /\ resp'.body = <<>>)
            /\ resp'.status = 200
                 => (/\ existsSync(fs, filePath) /\ ~isDirectory(fs, filePath)
                     /\ Decodable(fs[filePath].data))]_vars

\* C17: a successful listDirectory returns exactly the immediate children,
\* each once; every directory stands before every file; within each group
\* the names ascend in the locale's order; and the answer is the same for
\* every order the filesystem may enumerate the children in.
C17_ListOrderDeterministic ==
  [][(resp'.op = "list" /\ resp'.status = 200) =>
       LET body == resp'.body
           dir == safePath(DATA_DIR, resp'.path)
       IN /\ Len(body) = Cardinality(readdirSync(fs, dir))
          /\ {body[i].name : i \in 1..Len(body)} = readdirSync(fs, dir)
          /\ \A i \in 1..Len(body) : body[i] = Item(fs, dir, body[i].name)
          /\ \A i, j \in 1..Len(body) :
               i < j => /\ body[j].isDirectory => body[i].isDirectory
                        /\ body[i].isDirectory = body[j].isDirectory
                             => localeCompare(body[i].name, body[j].name) <= 0
          /\ \A order \in Orders(Entries(fs, resp'.path)) :
               listDirectory(fs, resp'.path, order).resp.body = body]_vars

\* C18: the status probe answers 200 to every outcome of its one query:
\* online = TRUE with the fields of the result when the query gave a whole
\* result, online = FALSE with the error's message when it failed or gave
\* a result that lacks a part; and the handler made exactly one query.
C18_StatusNeverFails ==
  [][\A r \in inflight \ inflight' :
       r.op = "status" =>
         /\ r.attempts = 1
         /\ resp'.op = "status" /\ resp'.status = 200 /\ resp'.json
         /\ Len(resp'.body) = 1
         /\ \E outcome \in StatusOutcomes :
              LET ok == /\ outcome.settled = "resolved"
                        /\ outcome.result.players.defined
                        /\ outcome.result.version.defined
                        /\ outcome.result.motd.defined
                  snapshot == resp'.body[1]
              IN /\ snapshot.online = ok
                 /\ ok => /\ snapshot.players = outcome.result.players
                          /\ snapshot.version = outcome.result.version
                          /\ snapshot.motd = outcome.result.motd
                          /\ snapshot.latency = outcome.result.roundTripLatency
                 /\ ~ok => snapshot.error # ""
                 /\ (outcome.settled = "rejected") => snapshot.error = outcome.message]_vars

\* a status query timed out and the probe answered 200, offline
C18_Witness ==
  /\ resp.op = "status" /\ resp.status = 200
  /\ resp.body = <<Offline("Timed out")>>

\* the request r is answered in this step
Gone(r) == r \in inflight /\ \A q \in inflight' : q.id # r.id

\* what a restart request does once its restart command has settled: 200
\* only with the command accepted by the runtime, else 500 with the cause;
\* the request issued the one command
RestartSettles(r) ==
  (r.pc = "restarting" /\ Gone(r)) =>
     /\ resp'.op = "restart" /\ resp'.json
     /\ r.attempts = 1
     /\ resp'.status \in {200, 500}
     /\ resp'.status = 200 => r.found.container \in docker'.restarted
     /\ resp'.status = 500 => (Len(resp'.body) = 1 /\ docker' = docker)

C20_ToggleKeepsOthers ==
  [][(resp'.op = "modToggle" /\ resp'.status = 200) =>
       LET from == JoinResolve(MODS_DIR, resp'.path)
           to == JoinResolve(MODS_DIR, resp'.path2)
       IN /\ Cardinality(readdirSync(fs', ModsRoot)) = Cardinality(readdirSync(fs, ModsRoot))
          /\ existsSync(fs', to) /\ fs'[to] = fs[from]
          /\ \A s \in DOMAIN fs \ {from} : existsSync(fs', s) /\ fs'[s] = fs[s]]_vars

\* C21: the general-files root is a directory at its configured path in
\* every state the File Tree Manager's requests lead to.
C21_RootStays ==
  existsSync(fs, DataRoot) /\ isDirectory(fs, DataRoot)
====
